---- MODULE Spec2Model ----
(***************************************************************************)
(* A model of stack_data's repeated-frame collapsing (utils.py:            *)
(* highlight_unique, collapse_repeated), of its truncate helper and of the *)
(* Formatter's format_stack_data generator (formatting.py).                *)
(*                                                                         *)
(* Three specifications:                                                   *)
(*   Spec       one consumption of collapse_repeated(lst, key=key)         *)
(*   TruncSpec  truncate(seq, max_length, middle), applied once and twice  *)
(*   FmtSpec    one consumption of Formatter.format_stack_data(stack)      *)
(***************************************************************************)
EXTENDS Integers, Sequences, FiniteSets, TLC

\* ---------------------------------------------------------------- bounds
\* longest input list given to collapse_repeated
MaxLen == 9
\* number of distinct key values the key function may return
NumKeys == 2
\* longest sequence given to truncate
MaxSeqLen == 4
\* largest max_length given to truncate
MaxMaxLength == 5
\* max_length ranges down to -MaxNegLength
MaxNegLength == 1
\* longest middle given to truncate
MaxMiddle == 3
\* longest stack given to format_stack_data
MaxStack == 4
\* number of distinct frames a stack may hold
NumFrames == 2

\* counts[x] > 3 (utils.py:28)
Threshold == 3

Keys == 1..NumKeys

\* ------------------------------------------------------- sequence helpers
Max(a, b) == IF a >= b THEN a ELSE b
Min(a, b) == IF a <= b THEN a ELSE b

RECURSIVE Flatten(_)
\* the concatenation of a sequence of sequences
Flatten(ss) == IF ss = <<>> THEN <<>> ELSE Head(ss) \o Flatten(Tail(ss))

Reverse(s) == [i \in 1..Len(s) |-> s[Len(s) + 1 - i]]

\* the sequences over S of length at most n
SeqUpTo(S, n) == UNION {[1..m -> S] : m \in 0..n}

\* --------------------------------------------------------------- state
VARIABLES
    \* collapse_repeated and highlight_unique (utils.py)
    lst,          \* collapse_repeated's input: the items, in order
    key,          \* the key function, item -> key
    keyed,        \* keyed = list(map(key, lst))
    pc,           \* collapse_repeated: "init" | "scan" | "map" | "done"
    tagged,       \* the booleans highlight_unique has yielded so far
    hpc,          \* highlight_unique: "idle" | "loop" (inside for item in set(group))
    group,        \* highlight_unique: the keys of the common group in hand
    highlighted,  \* highlight_unique: the group's flags
    todo,         \* highlight_unique: the items of set(group) not visited yet
    visited,      \* highlight_unique: the items of set(group) visited, in order
    pos,          \* collapse_repeated: how many items its groupby has consumed
    pending,      \* collapse_repeated: the visible group still to be mapped
    out,          \* the segments yielded so far
    calls,        \* the callback invocations so far, in the order made
    \* truncate (utils.py)
    t_seq,        \* seq
    t_max,        \* max_length
    t_middle,     \* middle
    t_calls,      \* how many times truncate has been applied (0, 1, 2)
    t_once,       \* truncate(seq, max_length, middle)
    t_twice,      \* truncate(t_once, max_length, middle)
    \* Formatter.format_stack_data (formatting.py)
    f_stack,      \* stack: FrameInfo and RepeatedFrames objects
    f_show_variables, \* self.show_variables
    f_idx,        \* how many items of stack the for loop has taken
    f_out,        \* the lines yielded so far
    f_pc          \* "run" | "done"

cvars == <<lst, key, keyed, pc, tagged, hpc, group, highlighted, todo, visited,
           pos, pending, out, calls>>
tvars == <<t_seq, t_max, t_middle, t_calls, t_once, t_twice>>
fvars == <<f_stack, f_show_variables, f_idx, f_out, f_pc>>
vars == <<cvars, tvars, fvars>>

\* ------------------------------------------------------ highlight_unique
\* counts = Counter(lst); counts[x]
Count(ks, x) == Cardinality({i \in 1..Len(ks) : ks[i] = x})

\* the groupby key of highlight_unique: lambda x: counts[x] > 3
IsCommon(ks, x) == Count(ks, x) > Threshold

\* itertools.groupby over the key values gk (one per element read so far):
\* the last index of the group that starts at index p + 1
GroupEnd(gk, p) ==
    CHOOSE e \in (p + 1)..Len(gk) :
        /\ \A j \in (p + 1)..e : gk[j] = gk[p + 1]
        /\ (e < Len(gk) => gk[e + 1] # gk[p + 1])

\* list.index(item, start): the first (1-based) index >= start holding item,
\* 0 for ValueError
Index(g, item, start) ==
    IF \E i \in start..Len(g) : g[i] = item
    THEN CHOOSE i \in start..Len(g) :
             g[i] = item /\ \A j \in start..(i - 1) : g[j] # item
    ELSE 0

\* - group[::-1].index(item): the -1 forgotten, so the index is one too far
\* right and wraps to the first element when item ends the group
LastIndexOffByOne(g, item) ==
    LET r == Index(Reverse(g), item, 1)
    IN  IF r = 0 THEN 0
        ELSE IF r = 1 THEN 1 ELSE Len(g) + 1 - (r - 1)

\* -1 - group[::-1].index(item): a negative index, resolved against len(group)
LastIndex(g, item) ==
    LET r == Index(Reverse(g), item, 1)
    IN  IF r = 0 THEN 0 ELSE Len(g) + 1 + ((0 - 1) - (r - 1))

\* highlight_index(f): highlighted[i] = True unless f raised ValueError
HighlightIndex(h, i) == IF i = 0 THEN h ELSE [h EXCEPT ![i] = TRUE]

\* the loop body with highlighted = [False] * len(group) moved inside the loop
HighlightItemFresh(h, g, item) ==
    LET h0 == [i \in 1..Len(g) |-> FALSE]
        first == Index(g, item, 1)
        h1 == HighlightIndex(h0, first)
        h2 == IF first # 0 THEN HighlightIndex(h1, Index(g, item, first + 1)) ELSE h1
    IN  HighlightIndex(h2, LastIndex(g, item))

\* the body of `for item in set(group)`: first, second and last occurrence
HighlightItem(h, g, item) ==
    LET first == Index(g, item, 1)
        h1 == HighlightIndex(h, first)
        h2 == IF first # 0 THEN HighlightIndex(h1, Index(g, item, first + 1)) ELSE h1
    IN  HighlightIndex(h2, LastIndex(g, item))

\* itertools.repeat(False) in the else branch
RareTagsFalse(n) == [i \in 1..n |-> FALSE]

\* highlighted = itertools.repeat(True), zipped with a group of n items
RareTags(n) == [i \in 1..n |-> TRUE]

\* the index where highlight_unique's next group starts, less one
HuPos == Len(tagged)

\* itertools.groupby(lst, key=lambda x: counts[x] > 3): the end of the group
\* highlight_unique is about to take
HuGroupEnd ==
    GroupEnd([j \in 1..Len(keyed) |-> IsCommon(keyed, keyed[j])], HuPos)

\* ----------------------------------------------------- collapse_repeated
\* key=lambda t: t[1], the (key, flag) pair
GroupKeyPair(j) == <<keyed[j], tagged[j]>>

\* the groupby key of collapse_repeated: lambda t: t[1][1]
GroupKey(j) == tagged[j]

\* groupby has to pull more of highlight_unique before it can close the
\* group that starts at pos + 1
NeedMore ==
    /\ Len(tagged) < Len(lst)
    /\ \A j \in (pos + 1)..Len(tagged) : GroupKey(j) = GroupKey(pos + 1)

\* no groupby: every tagged pair a group of its own
ScanEndOne == pos + 1

\* itertools.groupby(zip(lst, highlight_unique(keyed)), key=...): the end of the
\* group that starts at pos + 1
ScanEnd == GroupEnd([j \in 1..Len(tagged) |-> GroupKey(j)], pos)

\* the group without its last pair
OriginalGroupShort(p, e) == SubSeq(lst, p + 1, e - 1)

\* original_group, highlighted_group = zip(*group)
OriginalGroup(p, e) == SubSeq(lst, p + 1, e)

\* keyed_group, _ = zip(*highlighted_group)
KeyedGroup(p, e) == SubSeq(keyed, p + 1, e)

\* map(mapper, reversed(original_group))
MapperArgsReversed(g) == Reverse(g)

\* map(mapper, original_group): the order the items are handed to mapper
MapperArgs(g) == g

\* mapper=identity
Mapper(x) == x

\* collapser(original_group, keyed_group): the summary object
Collapser(items, ks) == [kind |-> "summary", items |-> items, keys |-> ks]

\* a segment that is one mapped item
Visible(x) == [kind |-> "item", items |-> <<x>>, keys |-> <<>>]

\* --------------------------------------------------------------- truncate
\* seq[:stop]
SliceTo(s, stop) ==
    SubSeq(s, 1, IF stop < 0 THEN Max(Len(s) + stop, 0) ELSE Min(stop, Len(s)))

\* seq[start:]
SliceFrom(s, start) ==
    SubSeq(s, (IF start < 0 THEN Max(Len(s) + start, 0) ELSE Min(start, Len(s))) + 1,
           Len(s))

\* truncate(seq, max_length, middle)
Truncate(s, n, m) ==
    IF Len(s) > n
    THEN LET left == (n - Len(m)) \div 2
             right == n - Len(m) - left
         IN  SliceTo(s, left) \o m \o SliceFrom(s, 0 - right)
    ELSE s

\* ------------------------------------------------------------- Formatter
Frames == [type : {"FrameInfo"}, id : 1..NumFrames]

Repeated == [type : {"RepeatedFrames"}, id : {0}]

\* frame.lines: Line objects and LINE_GAP; a frame with an even id has a gap
FrameLines(frame) ==
    IF frame.id % 2 = 0
    THEN <<[gap |-> FALSE, lineno |-> 10 * frame.id],
           [gap |-> TRUE, lineno |-> 0],
           [gap |-> FALSE, lineno |-> 10 * frame.id + 5]>>
    ELSE <<[gap |-> FALSE, lineno |-> 10 * frame.id]>>

\* frame_info.variables, by name
FrameVariables(frame) == {frame.id, frame.id + 1}

RECURSIVE Sorted(_)
\* sorted(frame_info.variables, key=lambda v: v.name)
Sorted(S) ==
    IF S = {} THEN <<>>
    ELSE LET m == CHOOSE x \in S : \A y \in S : x <= y
         IN  <<m>> \o Sorted(S \ {m})

\* format_frame_header
FormatFrameHeader(frame) == [text |-> "File", of |-> frame.id]

\* format_line
FormatLine(line) == [text |-> "line", of |-> line.lineno]

\* self.line_gap_string + "\n"
LineGapString == [text |-> "(...)", of |-> 0]

\* format_variables
FormatVariables(frame) ==
    LET names == Sorted(FrameVariables(frame))
    IN  [i \in 1..Len(names) |-> [text |-> "var", of |-> names[i]]]

\* format_frame: the lines it yields
FormatFrame(frame, show_variables) ==
    LET lines == FrameLines(frame)
    IN  <<FormatFrameHeader(frame)>>
        \o [i \in 1..Len(lines) |->
               IF lines[i].gap THEN LineGapString ELSE FormatLine(lines[i])]
        \o (IF show_variables THEN FormatVariables(frame) ELSE <<>>)

\* format_repeated_frames
FormatRepeatedFrames(item) == [text |-> "[... skipping similar frames: ]", of |-> item.id]

\* ---------------------------------------------------------------- Init
CollapseIdle ==
    /\ lst = <<>> /\ key = <<>> /\ keyed = <<>> /\ pc = "done"
    /\ tagged = <<>> /\ hpc = "idle" /\ group = <<>> /\ highlighted = <<>>
    /\ todo = {} /\ visited = <<>> /\ pos = 0 /\ pending = <<>>
    /\ out = <<>> /\ calls = <<>>

TruncIdle ==
    /\ t_seq = <<>> /\ t_max = 0 /\ t_middle = <<>> /\ t_calls = 2
    /\ t_once = <<>> /\ t_twice = <<>>

FmtIdle ==
    /\ f_stack = <<>> /\ f_show_variables = FALSE /\ f_idx = 0 /\ f_out = <<>>
    /\ f_pc = "done"

\* Keys are opaque hashables that the code only counts and compares for
\* equality (Counter, set, list.index), so a key function stands for all those
\* that differ from it by a renaming of the keys: the one that numbers the keys
\* in the order they first appear.
FirstAppearanceOrder(k, n) ==
    \A i \in 1..n : \A v \in 1..(k[i] - 1) : \E j \in 1..(i - 1) : k[j] = v

\* collapse_repeated(lst, collapser=..., key=key) has been called and not yet
\* iterated; the items are distinct objects
Init ==
    /\ \E n \in 0..MaxLen :
          /\ lst = [i \in 1..n |-> i]
          /\ key \in {k \in [1..n -> Keys] : FirstAppearanceOrder(k, n)}
    /\ keyed = <<>>
    /\ pc = "init"
    /\ tagged = <<>>
    /\ hpc = "idle"
    /\ group = <<>>
    /\ highlighted = <<>>
    /\ todo = {}
    /\ visited = <<>>
    /\ pos = 0
    /\ pending = <<>>
    /\ out = <<>>
    /\ calls = <<>>
    /\ TruncIdle
    /\ FmtIdle

\* ------------------------------------------------------------- actions
\* the first next(): keyed = list(map(key, lst)) (utils.py:57)
Start ==
    /\ pc = "init"
    /\ keyed' = [i \in 1..Len(lst) |-> key[lst[i]]]
    /\ pc' = "scan"
    /\ UNCHANGED <<lst, key, tagged, hpc, group, highlighted, todo, visited,
                   pos, pending, out, calls, tvars, fvars>>

\* highlight_unique reaches a group that is not common: every item of it is
\* yielded with True (utils.py:46-49)
HuRareGroup ==
    /\ pc = "scan" /\ hpc = "idle" /\ NeedMore
    /\ ~IsCommon(keyed, keyed[HuPos + 1])
    /\ tagged' = tagged \o RareTags(HuGroupEnd - HuPos)
    /\ UNCHANGED <<lst, key, keyed, pc, hpc, group, highlighted, todo, visited,
                   pos, pending, out, calls, tvars, fvars>>

\* highlight_unique reaches a common group: group = list(group);
\* highlighted = [False] * len(group) (utils.py:29-31)
HuCommonGroup ==
    /\ pc = "scan" /\ hpc = "idle" /\ NeedMore
    /\ IsCommon(keyed, keyed[HuPos + 1])
    /\ group' = SubSeq(keyed, HuPos + 1, HuGroupEnd)
    /\ highlighted' = [i \in 1..(HuGroupEnd - HuPos) |-> FALSE]
    /\ todo' = {keyed[i] : i \in (HuPos + 1)..HuGroupEnd}
    /\ visited' = <<>>
    /\ hpc' = "loop"
    /\ UNCHANGED <<lst, key, keyed, pc, tagged, pos, pending, out, calls,
                   tvars, fvars>>

\* one iteration of `for item in set(group)`, the set's order being arbitrary
\* (utils.py:41-45)
HuHighlightItem ==
    /\ hpc = "loop"
    /\ \E item \in todo :
          /\ highlighted' = HighlightItem(highlighted, group, item)
          /\ todo' = todo \ {item}
          /\ visited' = Append(visited, item)
    /\ UNCHANGED <<lst, key, keyed, pc, tagged, hpc, group, pos, pending,
                   out, calls, tvars, fvars>>

\* yield from zip(group, highlighted) (utils.py:49)
HuYieldGroup ==
    /\ hpc = "loop" /\ todo = {}
    /\ tagged' = tagged \o highlighted
    /\ hpc' = "idle"
    /\ group' = <<>>
    /\ highlighted' = <<>>
    /\ visited' = <<>>
    /\ UNCHANGED <<lst, key, keyed, pc, todo, pos, pending, out, calls,
                   tvars, fvars>>

\* groupby closes a highlighted group: yield from map(mapper, original_group)
\* starts (utils.py:62-64)
ScanVisibleGroup ==
    /\ pc = "scan" /\ hpc = "idle" /\ ~NeedMore
    /\ pos < Len(lst)
    /\ tagged[pos + 1]
    /\ pending' = MapperArgs(OriginalGroup(pos, ScanEnd))
    /\ pos' = ScanEnd
    /\ pc' = "map"
    /\ UNCHANGED <<lst, key, keyed, tagged, hpc, group, highlighted, todo,
                   visited, out, calls, tvars, fvars>>

\* map calls mapper on the next item and the result is yielded (utils.py:64)
MapperYield ==
    /\ pc = "map"
    /\ calls' = Append(calls, [fn |-> "mapper", args |-> <<Head(pending)>>])
    /\ out' = Append(out, Visible(Mapper(Head(pending))))
    /\ pending' = Tail(pending)
    /\ pc' = IF Len(pending) = 1 THEN "scan" ELSE "map"
    /\ UNCHANGED <<lst, key, keyed, tagged, hpc, group, highlighted, todo,
                   visited, pos, tvars, fvars>>

\* groupby closes a group that is not highlighted:
\* yield collapser(original_group, keyed_group) (utils.py:65-67)
CollapseHiddenGroup ==
    /\ pc = "scan" /\ hpc = "idle" /\ ~NeedMore
    /\ pos < Len(lst)
    /\ ~tagged[pos + 1]
    /\ calls' = Append(calls, [fn |-> "collapser",
                               args |-> OriginalGroup(pos, ScanEnd)])
    /\ out' = Append(out, Collapser(OriginalGroup(pos, ScanEnd),
                                    KeyedGroup(pos, ScanEnd)))
    /\ pos' = ScanEnd
    /\ UNCHANGED <<lst, key, keyed, pc, tagged, hpc, group, highlighted, todo,
                   visited, pending, tvars, fvars>>

\* groupby is exhausted: the generator returns (utils.py:58)
Finish ==
    /\ pc = "scan" /\ hpc = "idle"
    /\ pos = Len(lst)
    /\ pc' = "done"
    /\ UNCHANGED <<lst, key, keyed, tagged, hpc, group, highlighted, todo,
                   visited, pos, pending, out, calls, tvars, fvars>>

Next ==
    \/ Start
    \/ HuRareGroup
    \/ HuCommonGroup
    \/ HuHighlightItem
    \/ HuYieldGroup
    \/ ScanVisibleGroup
    \/ MapperYield
    \/ CollapseHiddenGroup
    \/ Finish

Spec == Init /\ [][Next]_vars

\* ------------------------------------------------------------ TruncSpec
\* the arguments of a call of truncate: a list, any max_length, a middle
TruncInit ==
    /\ t_seq \in SeqUpTo({1, 2}, MaxSeqLen)
    /\ t_max \in (0 - MaxNegLength)..MaxMaxLength
    /\ t_middle \in {[i \in 1..m |-> 0] : m \in 0..MaxMiddle}
    /\ t_calls = 0
    /\ t_once = <<>>
    /\ t_twice = <<>>
    /\ CollapseIdle
    /\ FmtIdle

\* truncate(seq, max_length, middle)
TruncateOnce ==
    /\ t_calls = 0
    /\ t_once' = Truncate(t_seq, t_max, t_middle)
    /\ t_calls' = 1
    /\ UNCHANGED <<t_seq, t_max, t_middle, t_twice, cvars, fvars>>

\* truncate(truncate(seq, max_length, middle), max_length, middle)
TruncateAgain ==
    /\ t_calls = 1
    /\ t_twice' = Truncate(t_once, t_max, t_middle)
    /\ t_calls' = 2
    /\ UNCHANGED <<t_seq, t_max, t_middle, t_once, cvars, fvars>>

TruncNext ==
    \/ TruncateOnce
    \/ TruncateAgain

TruncSpec == TruncInit /\ [][TruncNext]_vars

\* -------------------------------------------------------------- FmtSpec
\* format_stack_data(stack) has been called and not yet iterated
FmtInit ==
    /\ f_stack \in SeqUpTo(Frames \cup Repeated, MaxStack)
    /\ f_show_variables \in BOOLEAN
    /\ f_idx = 0
    /\ f_out = <<>>
    /\ f_pc = "run"
    /\ CollapseIdle
    /\ TruncIdle

\* isinstance(item, FrameInfo): yield from self.format_frame(item)
\* (formatting.py:104-105)
FormatFrameItem ==
    /\ f_pc = "run"
    /\ f_idx < Len(f_stack)
    /\ f_stack[f_idx + 1].type = "FrameInfo"
    /\ f_out' = f_out \o FormatFrame(f_stack[f_idx + 1], f_show_variables)
    /\ f_idx' = f_idx + 1
    /\ UNCHANGED <<f_stack, f_show_variables, f_pc, cvars, tvars>>

\* else: return self.format_repeated_frames(item): the generator ends, the
\* returned string is the StopIteration value and is not yielded
\* (formatting.py:106-107)
ReturnRepeatedFrames ==
    /\ f_pc = "run"
    /\ f_idx < Len(f_stack)
    /\ f_stack[f_idx + 1].type # "FrameInfo"
    /\ f_idx' = f_idx + 1
    /\ f_pc' = "done"
    /\ UNCHANGED <<f_stack, f_show_variables, f_out, cvars, tvars>>

\* the for loop ends (formatting.py:103)
StackExhausted ==
    /\ f_pc = "run"
    /\ f_idx = Len(f_stack)
    /\ f_pc' = "done"
    /\ UNCHANGED <<f_stack, f_show_variables, f_idx, f_out, cvars, tvars>>

FmtNext ==
    \/ FormatFrameItem
    \/ ReturnRepeatedFrames
    \/ StackExhausted

FmtSpec == FmtInit /\ [][FmtNext]_vars

\* ---------------------------------------------------- properties: Spec
\* the items underlying the segments yielded so far, in emitted order
Emitted == Flatten([j \in 1..Len(out) |-> out[j].items])

\* the items handed to the callbacks so far, in call order
CalledWith == Flatten([j \in 1..Len(calls) |-> calls[j].args])

\* position i holds a key whose count over the whole list exceeds 3
CommonAt(i) == Count(keyed, keyed[i]) > 3

\* the first position of the maximal run of common positions around i
RunStart(i) ==
    CHOOSE s \in 1..i :
        /\ \A j \in s..i : CommonAt(j)
        /\ (s > 1 => ~CommonAt(s - 1))

\* the last position of the maximal run of common positions around i
RunEnd(i) ==
    CHOOSE e \in i..Len(keyed) :
        /\ \A j \in i..e : CommonAt(j)
        /\ (e < Len(keyed) => ~CommonAt(e + 1))

\* the positions of i's run that hold i's key
SameKeyInRun(i) == {j \in RunStart(i)..RunEnd(i) : keyed[j] = keyed[i]}

\* how many occurrences of i's key its run holds before i, and after i
OccBefore(i) == Cardinality({j \in SameKeyInRun(i) : j < i})
OccAfter(i) == Cardinality({j \in SameKeyInRun(i) : j > i})

\* the summaries among the yielded segments that hold the item of position i
SummariesOf(i) ==
    {j \in 1..Len(out) :
        /\ out[j].kind = "summary"
        /\ \E m \in 1..Len(out[j].items) : out[j].items[m] = lst[i]}

\* the position of item x in the input
PosOf(x) == CHOOSE i \in 1..Len(lst) : lst[i] = x

\* two hidden positions i < j of one key in one common run
HiddenPair(i, j) ==
    /\ i < j
    /\ ~tagged[i] /\ ~tagged[j]
    /\ keyed[i] = keyed[j]
    /\ \A m \in i..j : CommonAt(m)

\* C1: the segments yielded are a partition of the input in input order: at
\* every point of the consumption the items underlying the segments yielded,
\* followed by the items of the visible group still being mapped, are exactly
\* the items groupby has consumed, and at the end they are the whole input.
C1_Partition ==
    /\ Emitted \o pending = SubSeq(lst, 1, pos)
    /\ pc = "done" => Emitted = lst

C1_Witness ==
    /\ pc = "done" /\ Len(lst) >= 5
    /\ \E j \in 1..Len(out) : out[j].kind = "summary" /\ Len(out[j].items) >= 2
    /\ \E j \in 1..Len(out) : out[j].kind = "item"

\* C2: a position whose key occurs at most 3 times in the whole list is tagged
\* True by highlight_unique, its item is in no summary and, once the
\* consumption is over, has been yielded as a segment of its own.
C2_RareVisible ==
    \A i \in 1..Len(keyed) :
        Count(keyed, keyed[i]) <= 3 =>
            /\ i <= Len(tagged) => tagged[i]
            /\ SummariesOf(i) = {}
            /\ pc = "done" => \E j \in 1..Len(out) : out[j] = Visible(lst[i])

C2_Witness ==
    /\ pc = "done"
    /\ \E i \in 1..Len(keyed) : Count(keyed, keyed[i]) = 3
    /\ \E j \in 1..Len(out) : out[j].kind = "summary"

\* C3: in every maximal run of common positions, a position is tagged True
\* exactly when it is the 1st, the 2nd or the last occurrence of its key in
\* that run; so at most 3 positions per key and run are True.
C3_FirstSecondLast ==
    \A i \in 1..Len(tagged) :
        CommonAt(i) =>
            /\ tagged[i] <=> (OccBefore(i) <= 1 \/ OccAfter(i) = 0)
            /\ Cardinality({j \in SameKeyInRun(i) : tagged[j]}) <= 3

C3_Witness ==
    /\ pc = "done"
    /\ \E i \in 1..Len(tagged) : CommonAt(i) /\ Cardinality(SameKeyInRun(i)) <= 2
    /\ \E i \in 1..Len(tagged) : ~tagged[i]

\* C4 as claimed: all hidden occurrences of a key in one common run are passed
\* to one single collapser call.
C4_OneSummaryPerKey ==
    pc = "done" =>
        \A i, j \in 1..Len(lst) :
            HiddenPair(i, j) => SummariesOf(i) = SummariesOf(j)

\* C4 amended: in a common run where key k occurs m > 3 times, the m - 3
\* occurrences other than the 1st, 2nd and last are hidden and each is passed
\* to exactly one collapser call; two of them are passed to the same call
\* exactly when no visible position lies between them, which is always so
\* when k is the only key of the run.
C4_HiddenSummaries ==
    pc = "done" =>
        /\ \A i \in 1..Len(lst) :
              (CommonAt(i) /\ Cardinality(SameKeyInRun(i)) > 3) =>
                 /\ Cardinality({j \in SameKeyInRun(i) : ~tagged[j]})
                        = Cardinality(SameKeyInRun(i)) - 3
                 /\ ~tagged[i] => Cardinality(SummariesOf(i)) = 1
        /\ \A i, j \in 1..Len(lst) :
              HiddenPair(i, j) =>
                 /\ SummariesOf(i) = SummariesOf(j)
                        <=> \A m \in i..j : ~tagged[m]
                 /\ (\A m \in RunStart(i)..RunEnd(i) : keyed[m] = keyed[i])
                        => SummariesOf(i) = SummariesOf(j)

C4_Witness ==
    /\ pc = "done"
    /\ \E i, j \in 1..Len(lst) :
          /\ HiddenPair(i, j)
          /\ SummariesOf(i) = SummariesOf(j)
          /\ \E m \in RunStart(i)..RunEnd(i) : keyed[m] # keyed[i]

\* C7: no two consecutive segments are summaries, and every summary holds a
\* non-empty contiguous run of hidden items that is maximal: the positions
\* just before and just after it, when they exist, are visible.
C7_NoAdjacentSummaries ==
    /\ \A j \in 1..(Len(out) - 1) :
          ~(out[j].kind = "summary" /\ out[j + 1].kind = "summary")
    /\ \A j \in 1..Len(out) :
          out[j].kind = "summary" =>
             /\ Len(out[j].items) >= 1
             /\ LET first == PosOf(out[j].items[1])
                    last == PosOf(out[j].items[Len(out[j].items)])
                IN  /\ out[j].items = SubSeq(lst, first, last)
                    /\ \A m \in first..last : ~tagged[m]
                    /\ first > 1 => tagged[first - 1]
                    /\ last < Len(lst) => tagged[last + 1]

C7_Witness ==
    \E j \in 2..(Len(out) - 1) :
        /\ out[j].kind = "summary" /\ Len(out[j].items) >= 2
        /\ out[j - 1].kind = "item" /\ out[j + 1].kind = "item"
        /\ \E m \in 1..(j - 1) : out[m].kind = "summary"

\* C9: the callbacks are invoked in input order: the j-th invocation is the
\* one that produced the j-th segment (mapper with one item for an item
\* segment, collapser with the whole run for a summary), the arguments of
\* the invocations made so far are a prefix of the input, and at the end every
\* visible position has had one mapper call and every hidden run one
\* collapser call.
C9_CallbacksInOrder ==
    /\ Len(calls) = Len(out)
    /\ \A j \in 1..Len(calls) :
          /\ calls[j].args = out[j].items
          /\ calls[j].fn = "collapser" <=> out[j].kind = "summary"
          /\ calls[j].fn = "mapper" <=> out[j].kind = "item"
          /\ calls[j].fn = "mapper" => Len(calls[j].args) = 1
    /\ CalledWith = SubSeq(lst, 1, Len(CalledWith))
    /\ Len(CalledWith) + Len(pending) = pos
    /\ pc = "done" =>
          /\ CalledWith = lst
          /\ Cardinality({j \in 1..Len(calls) : calls[j].fn = "mapper"})
                = Cardinality({i \in 1..Len(lst) : tagged[i]})
          /\ Cardinality({j \in 1..Len(calls) : calls[j].fn = "collapser"})
                = Cardinality({i \in 1..Len(lst) :
                                  ~tagged[i] /\ (i = 1 \/ tagged[i - 1])})

C9_Witness ==
    /\ pc = "map" /\ Len(pending) >= 1
    /\ \E j \in 2..(Len(calls) - 1) :
          /\ calls[j].fn = "collapser"
          /\ calls[j - 1].fn = "mapper" /\ calls[j + 1].fn = "mapper"

RECURSIVE HighlightInOrder(_, _, _)
\* the loop of highlight_unique run over the items S in ascending order
HighlightInOrder(h, g, S) ==
    IF S = {} THEN h
    ELSE LET m == CHOOSE x \in S : \A y \in S : x <= y
         IN  HighlightInOrder(HighlightItem(h, g, m), g, S \ {m})

\* C10: whatever order the loop visits the distinct keys of a common group
\* in, the flags it has set are those the ascending order sets for the same
\* keys; so when the loop ends the flags are a function of the group alone.
C10_OrderIndependent ==
    hpc = "loop" =>
        highlighted = HighlightInOrder([i \in 1..Len(group) |-> FALSE], group,
                                       {visited[i] : i \in 1..Len(visited)})

C10_Witness ==
    /\ hpc = "loop" /\ todo = {}
    /\ Len(visited) >= 2 /\ visited[1] > visited[2]
    /\ \E i \in 1..Len(group) : ~highlighted[i]

\* ------------------------------------------------ properties: TruncSpec
\* C5 as claimed: the result of truncate is no longer than
\* max(max_length, len(middle)).
C5_LengthBound ==
    t_calls >= 1 => Len(t_once) <= Max(t_max, Len(t_middle))

\* C6 as claimed: for max_length >= len(middle), truncating the result again
\* changes nothing.
C6_Idempotent ==
    (t_calls = 2 /\ t_max >= Len(t_middle)) => t_twice = t_once

\* -------------------------------------------------- properties: FmtSpec
RECURSIVE Linearize(_, _)
\* the text of every segment of the stack, in order
Linearize(stack, show_variables) ==
    IF stack = <<>> THEN <<>>
    ELSE (IF Head(stack).type = "FrameInfo"
          THEN FormatFrame(Head(stack), show_variables)
          ELSE <<FormatRepeatedFrames(Head(stack))>>)
         \o Linearize(Tail(stack), show_variables)

\* C8 as claimed: once format_stack_data is exhausted it has yielded the text
\* of every frame and one skipping line for every summary, in input order.
C8_Linearizes ==
    f_pc = "done" => f_out = Linearize(f_stack, f_show_variables)

====
